---- MODULE Spec2Model ----
(***************************************************************************)
(* Finite-volume shallow-water solver (cpp/src/mesh.cpp, cpp/src/solver.cpp *)
(* and cpp/include/types.hpp) as a state machine.                          *)
(*                                                                         *)
(* Real (= double) is modelled as a fixed-point number: the integer r      *)
(* stands for r / S.  Addition, subtraction and negation are exact;        *)
(* multiplication, division and the square root round to the nearest       *)
(* representable value, ties away from zero, so that rounding is           *)
(* sign-symmetric as IEEE round-to-nearest is.  Indices (size_t, int) are  *)
(* plain integers, 0-based as in the source.                               *)
(***************************************************************************)
EXTENDS Integers, Sequences, FiniteSets, TLC

VARIABLES
    mesh_,                 \* Solver::mesh_ / the Mesh under construction
    params_,               \* Solver::params_
    state_,                \* Solver::state_
    state_new_,            \* Solver::state_new_
    bathymetry_,           \* Solver::bathymetry_
    boundary_conditions_,  \* Solver::boundary_conditions_
    current_time_,         \* Solver::current_time_
    step_count_,           \* Solver::step_count_
    pc,                    \* position of the caller / of advance_to_time's loop
    args,                  \* arguments of the call in progress or last made
    result,                \* what the last call returned or threw
    hist                   \* history of the run, for stating the properties

vars == <<mesh_, params_, state_, state_new_, bathymetry_, boundary_conditions_,
          current_time_, step_count_, pc, args, result, hist>>

solver_vars == <<params_, state_, state_new_, bathymetry_, boundary_conditions_,
                 current_time_, step_count_>>

-----------------------------------------------------------------------------
(* Real arithmetic                                                         *)

S == 100

Abs(a) == IF a < 0 THEN -a ELSE a
Min(a, b) == IF b < a THEN b ELSE a
Max(a, b) == IF a < b THEN b ELSE a

\* static_cast<Real>(n) and the implicit size_t -> double conversions
ToReal(n) == n * S

\* a * b on doubles
RMul(a, b) ==
    LET prod == a * b
    IN  IF prod >= 0 THEN (prod + S \div 2) \div S
        ELSE -((S \div 2 - prod) \div S)

\* a / b on doubles, b # 0
RDiv(a, b) ==
    LET num == IF b < 0 THEN -a ELSE a
        den == Abs(b)
    IN  IF num >= 0 THEN (num * S + den \div 2) \div den
        ELSE -((den \div 2 - num * S) \div den)

RECURSIVE ISqrtIter(_, _)
ISqrtIter(n, x) ==
    LET y == (x + n \div x) \div 2
    IN  IF y >= x THEN x ELSE ISqrtIter(n, y)

\* floor of the square root of the integer n >= 0: Newton's iteration from
\* a power of ten that is not below the root
ISqrt(n) ==
    IF n = 0 THEN 0
    ELSE ISqrtIter(n, IF n < 100 THEN 10
                      ELSE IF n < 10000 THEN 100
                      ELSE IF n < 1000000 THEN 1000
                      ELSE IF n < 100000000 THEN 10000
                      ELSE 46340)

\* std::sqrt(a), a >= 0, rounded to nearest
RSqrt(a) ==
    LET n == a * S
        r == ISqrt(n)
    IN  IF n - r * r > r THEN r + 1 ELSE r

\* The quotient 0.0 / 0.0 of doubles, which is no Real of the model
NaN == "NaN"

-----------------------------------------------------------------------------
(* types.hpp: Point and State algebra                                      *)

Point(x_, y_) == [x |-> x_, y |-> y_]
PAdd(p, q) == Point(p.x + q.x, p.y + q.y)
PSub(p, q) == Point(p.x - q.x, p.y - q.y)
PScale(p, s) == Point(RMul(p.x, s), RMul(p.y, s))
PDivide(p, s) == Point(RDiv(p.x, s), RDiv(p.y, s))
Dot(p, q) == RMul(p.x, q.x) + RMul(p.y, q.y)
Norm(p) == RSqrt(RMul(p.x, p.x) + RMul(p.y, p.y))
Cross(p, q) == RMul(p.x, q.y) - RMul(p.y, q.x)

State(h_, hu_, hv_) == [h |-> h_, hu |-> hu_, hv |-> hv_]
ZeroState == State(0, 0, 0)
SAdd(a, b) == [h |-> a.h + b.h, hu |-> a.hu + b.hu, hv |-> a.hv + b.hv]
SSub(a, b) == [h |-> a.h - b.h, hu |-> a.hu - b.hu, hv |-> a.hv - b.hv]
SScale(a, s) == [h |-> RMul(a.h, s), hu |-> RMul(a.hu, s), hv |-> RMul(a.hv, s)]
SDivide(a, s) == [h |-> RDiv(a.h, s), hu |-> RDiv(a.hu, s), hv |-> RDiv(a.hv, s)]

\* 0-based element access into a std::vector modelled as a sequence
At(v, i) == v[i + 1]

-----------------------------------------------------------------------------
(* mesh.cpp                                                                *)

\* Mesh(): no nodes, triangles or edges, empty maps
EmptyMesh ==
    [nodes |-> << >>, triangles |-> << >>, edges |-> << >>,
     edge_map |-> << >>, node_to_edges |-> << >>, node_to_triangles |-> << >>]

\* Triangle(): nodes as given by add_triangle, centroid (0,0), area 0
NewTriangle(n) == [nodes |-> n, centroid |-> Point(0, 0), area |-> 0]

\* A faulty edge_key, for testing the sensitivity of EdgeConservation: the
\* key keeps the order of its arguments
edge_key_ordered(n1, n2) == <<n1, n2>>

\* The 64-bit key (min << 32) | max, held as its two 32-bit halves
edge_key(n1, n2) == IF n1 > n2 THEN <<n2, n1>> ELSE <<n1, n2>>

\* edge_map_.find(key): the edge id stored under key, or -1
MapFind(edge_map, key) ==
    LET hits == {i \in 1..Len(edge_map) : edge_map[i].key = key}
    IN  IF hits = {} THEN -1 ELSE edge_map[CHOOSE i \in hits : TRUE].id

\* A faulty find_or_create_edge, for testing the sensitivity of
\* EdgeDiscoveryExact: the nodes of a new edge keep the order of the sighting
find_or_create_edge_unsorted(m, n1, n2, tri_id) ==
    LET key == edge_key(n1, n2)
        found == MapFind(m.edge_map, key)
    IN  IF found >= 0
        THEN [m EXCEPT !.edges[found + 1].triangles[2] = tri_id]
        ELSE LET edge == [nodes |-> <<n1, n2>>,
                          triangles |-> <<tri_id, -1>>,
                          midpoint |-> Point(0, 0),
                          length |-> 0,
                          normal |-> Point(0, 0)]
             IN  [m EXCEPT !.edges = Append(@, edge),
                           !.edge_map = Append(@, [key |-> key, id |-> Len(m.edges)])]

\* find_or_create_edge(n1, n2, tri_id): the mesh after the call; the edge id
\* it returns is MapFind(m', key)
find_or_create_edge(m, n1, n2, tri_id) ==
    LET key == edge_key(n1, n2)
        found == MapFind(m.edge_map, key)
    IN  IF found >= 0
        THEN [m EXCEPT !.edges[found + 1].triangles[2] = tri_id]
        ELSE LET edge == [nodes |-> <<Min(n1, n2), Max(n1, n2)>>,
                          triangles |-> <<tri_id, -1>>,
                          midpoint |-> Point(0, 0),
                          length |-> 0,
                          normal |-> Point(0, 0)]
             IN  [m EXCEPT !.edges = Append(@, edge),
                           !.edge_map = Append(@, [key |-> key, id |-> Len(m.edges)])]

\* v.push_back(x) on the list a node maps to (operator[] creates it empty)
MapPush(map, node, x) ==
    LET hits == {i \in 1..Len(map) : map[i].node = node}
    IN  IF hits = {}
        THEN Append(map, [node |-> node, list |-> <<x>>])
        ELSE LET i == CHOOSE j \in hits : TRUE
             IN  [map EXCEPT ![i].list = Append(@, x)]

\* One pass of build_connectivity's inner loop: side i of triangle tri_id
ConnectSide(m, tri_id, i) ==
    LET tri == At(m.triangles, tri_id)
        n1 == tri.nodes[i + 1]
        n2 == tri.nodes[((i + 1) % 3) + 1]
        m1 == find_or_create_edge(m, n1, n2, tri_id)
        edge_id == MapFind(m1.edge_map, edge_key(n1, n2))
    IN  [m1 EXCEPT
            !.node_to_edges = MapPush(MapPush(@, n1, edge_id), n2, edge_id),
            !.node_to_triangles = MapPush(MapPush(@, n1, tri_id), n2, tri_id)]

RECURSIVE SortedUnique(_)
\* std::sort followed by erase(std::unique(...)): ascending, no repeats
SortedUnique(list) ==
    LET elems == {list[i] : i \in 1..Len(list)}
    IN  IF elems = {} THEN << >>
        ELSE LET lo == CHOOSE e \in elems : \A f \in elems : e <= f
             IN  <<lo>> \o SortedUnique(SelectSeq(list, LAMBDA e : e # lo))

RECURSIVE ConnectFrom(_, _)
\* build_connectivity's loop over tri_id = k .. triangles_.size() - 1
ConnectFrom(m, k) ==
    IF k >= Len(m.triangles) THEN m
    ELSE ConnectFrom(ConnectSide(ConnectSide(ConnectSide(m, k, 0), k, 1), k, 2), k + 1)

build_connectivity(m) ==
    LET m0 == [m EXCEPT !.edge_map = << >>, !.edges = << >>]
        m1 == ConnectFrom(m0, 0)
    IN  [m1 EXCEPT
            !.node_to_triangles =
                [i \in 1..Len(@) |-> [@[i] EXCEPT !.list = SortedUnique(@)]],
            !.node_to_edges =
                [i \in 1..Len(@) |-> [@[i] EXCEPT !.list = SortedUnique(@)]]]

\* A faulty compute_triangle_geometry, for testing the sensitivity of
\* TriangleAreas: the area is the whole cross product
compute_triangle_geometry_doubled(m, tri) ==
    LET p0 == At(m.nodes, tri.nodes[1])
        p1 == At(m.nodes, tri.nodes[2])
        p2 == At(m.nodes, tri.nodes[3])
    IN  [tri EXCEPT !.centroid = PDivide(PAdd(PAdd(p0, p1), p2), 3 * S),
                    !.area = Abs(Cross(PSub(p1, p0), PSub(p2, p0)))]

compute_triangle_geometry(m, tri) ==
    LET p0 == At(m.nodes, tri.nodes[1])
        p1 == At(m.nodes, tri.nodes[2])
        p2 == At(m.nodes, tri.nodes[3])
        v1 == PSub(p1, p0)
        v2 == PSub(p2, p0)
    IN  [tri EXCEPT !.centroid = PDivide(PAdd(PAdd(p0, p1), p2), 3 * S),
                    !.area = RMul(Abs(Cross(v1, v2)), S \div 2)]

compute_edge_geometry(m, edge) ==
    LET p0 == At(m.nodes, edge.nodes[1])
        p1 == At(m.nodes, edge.nodes[2])
        diff == PSub(p1, p0)
        len == Norm(diff)
    IN  [edge EXCEPT !.midpoint = PScale(PAdd(p0, p1), S \div 2),
                     !.length = len,
                     !.normal = IF len = 0 THEN Point(NaN, NaN)
                                ELSE PDivide(Point(-diff.y, diff.x), len)]

compute_geometry(m) ==
    LET m1 == [m EXCEPT !.triangles =
                   [i \in 1..Len(@) |-> compute_triangle_geometry(m, @[i])]]
    IN  [m1 EXCEPT !.edges =
            [i \in 1..Len(@) |-> compute_edge_geometry(m1, @[i])]]

\* create_rectangular's node loop: row-major, j outer, i inner
RectNodes(dx, dy, nx, ny) ==
    [k \in 1..((nx + 1) * (ny + 1)) |->
        LET i == (k - 1) % (nx + 1)
            j == (k - 1) \div (nx + 1)
        IN  Point(RMul(ToReal(i), dx), RMul(ToReal(j), dy))]

\* A faulty RectTriangles, for testing the sensitivity of MeshCounts: one
\* triangle per quad
RectTrianglesLower(nx, ny) ==
    [k \in 1..(nx * ny) |->
        LET n0 == ((k - 1) \div nx) * (nx + 1) + ((k - 1) % nx)
        IN  NewTriangle(<<n0, n0 + 1, n0 + (nx + 1)>>)]

\* create_rectangular's triangle loop: two triangles per quad
RectTriangles(nx, ny) ==
    [k \in 1..(2 * nx * ny) |->
        LET q == (k - 1) \div 2
            i == q % nx
            j == q \div nx
            n0 == j * (nx + 1) + i
            n1 == n0 + 1
            n2 == n0 + (nx + 1)
            n3 == n2 + 1
        IN  IF (k - 1) % 2 = 0 THEN NewTriangle(<<n0, n1, n2>>)
                               ELSE NewTriangle(<<n1, n3, n2>>)]

create_rectangular(width, height, nx, ny) ==
    LET dx == RDiv(width, ToReal(nx))
        dy == RDiv(height, ToReal(ny))
        m0 == [EmptyMesh EXCEPT !.nodes = RectNodes(dx, dy, nx, ny),
                                !.triangles = RectTriangles(nx, ny)]
    IN  compute_geometry(build_connectivity(m0))

num_nodes(m) == Len(m.nodes)
num_triangles(m) == Len(m.triangles)
num_edges(m) == Len(m.edges)

is_boundary_edge(m, edge_id) == At(m.edges, edge_id).triangles[2] = -1

RECURSIVE SumReals(_, _, _)
\* v[lo] + ... + v[hi] of Reals; addition is exact, so the order of the
\* additions does not show
SumReals(v, lo, hi) ==
    IF lo > hi THEN 0
    ELSE IF lo = hi THEN v[lo]
    ELSE LET mid == (lo + hi) \div 2
         IN  SumReals(v, lo, mid) + SumReals(v, mid + 1, hi)

total_area(m) ==
    SumReals([i \in 1..Len(m.triangles) |-> m.triangles[i].area], 1, Len(m.triangles))

min_edge_length(m) ==
    IF Len(m.edges) = 0 THEN 0
    ELSE LET lengths == {m.edges[i].length : i \in 1..Len(m.edges)}
         IN  CHOOSE l \in lengths : \A k \in lengths : l <= k

-----------------------------------------------------------------------------
(* solver.hpp: SolverParameters and BoundaryCondition                      *)

\* BoundaryCondition(t) and BoundaryCondition(t, v); the default is Wall
BoundaryCondition(t, v) == [type |-> t, value |-> v]
DefaultBoundaryCondition == BoundaryCondition("Wall", ZeroState)

RECURSIVE ICbrtSearch(_, _, _)
\* the largest r in lo..hi with r^3 <= n
ICbrtSearch(n, lo, hi) ==
    IF lo >= hi THEN lo
    ELSE LET mid == (lo + hi + 1) \div 2
         IN  IF mid * mid * mid <= n THEN ICbrtSearch(n, mid, hi)
                                     ELSE ICbrtSearch(n, lo, mid - 1)

\* std::pow(h, 4.0/3.0) for h > 0, as h * cbrt(h)
RPow43(h) == RMul(h, ICbrtSearch(h * S * S, 0, 1290))

-----------------------------------------------------------------------------
(* solver.cpp: the numerical kernels, as functions of what they read       *)

\* Normal velocity of a state, 0 for a dry one (solver.cpp 191-194, 229-232)
NormalVelocity(p, s, normal) ==
    IF s.h > p.dry_tolerance
    THEN RDiv(RMul(s.hu, normal.x) + RMul(s.hv, normal.y), s.h)
    ELSE 0

\* A faulty compute_wave_speeds, for testing the sensitivity of
\* WaveSpeedsOrdered: the celerities are not floored at min_depth
compute_wave_speeds_unfloored(p, left, right, normal, gravity) ==
    LET ul == NormalVelocity(p, left, normal)
        ur == NormalVelocity(p, right, normal)
        cl == RSqrt(RMul(gravity, Max(left.h, 0)))
        cr == RSqrt(RMul(gravity, Max(right.h, 0)))
    IN  [sl |-> Min(ul - cl, ur - cr), sr |-> Max(ul + cl, ur + cr)]

\* A faulty compute_wave_speeds, for testing the sensitivity of
\* FluxAntisymmetric: sr takes the left celerity on both sides
compute_wave_speeds_lopsided(p, left, right, normal, gravity) ==
    LET ul == NormalVelocity(p, left, normal)
        ur == NormalVelocity(p, right, normal)
        cl == RSqrt(RMul(gravity, Max(left.h, p.min_depth)))
        cr == RSqrt(RMul(gravity, Max(right.h, p.min_depth)))
    IN  [sl |-> Min(ul - cl, ur - cr), sr |-> Max(ul + cl, ur + cl)]

\* compute_wave_speeds: the pair sl, sr
compute_wave_speeds(p, left, right, normal, gravity) ==
    LET ul == NormalVelocity(p, left, normal)
        ur == NormalVelocity(p, right, normal)
        cl == RSqrt(RMul(gravity, Max(left.h, p.min_depth)))
        cr == RSqrt(RMul(gravity, Max(right.h, p.min_depth)))
    IN  [sl |-> Min(ul - cl, ur - cr), sr |-> Max(ul + cl, ur + cr)]

\* The physical flux of state s in direction normal (solver.cpp 199-205)
PhysicalFlux(p, s, normal, gravity) ==
    LET un == NormalVelocity(p, s, normal)
        half_g_h2 == RMul(RMul(RMul(S \div 2, gravity), s.h), s.h)
    IN  State(RMul(s.hu, normal.x) + RMul(s.hv, normal.y),
              RMul(s.hu, un) + RMul(half_g_h2, normal.x),
              RMul(s.hv, un) + RMul(half_g_h2, normal.y))

compute_hll_flux(p, left, right, normal, gravity) ==
    LET w == compute_wave_speeds(p, left, right, normal, gravity)
        sl == w.sl
        sr == w.sr
        flux_left == PhysicalFlux(p, left, normal, gravity)
        flux_right == PhysicalFlux(p, right, normal, gravity)
    IN  IF sl >= 0 THEN flux_left
        ELSE IF sr <= 0 THEN flux_right
        ELSE SDivide(SAdd(SSub(SScale(flux_right, sl), SScale(flux_left, sr)),
                          SScale(SSub(left, right), RMul(sl, sr))),
                     sl - sr)

\* A faulty apply_boundary_condition, for testing the sensitivity of
\* NoMassThroughWall: the Wall ghost is the interior state
apply_boundary_condition_wall_open(p, bcs, interior_state, edge_id, normal) ==
    LET bc == At(bcs, edge_id)
    IN  IF bc.type = "Inflow" THEN bc.value ELSE interior_state

\* A faulty apply_boundary_condition, for testing the sensitivity of
\* GhostPerPolicy: the Wall ghost has the whole velocity reversed
apply_boundary_condition_no_slip(p, bcs, interior_state, edge_id, normal) ==
    LET bc == At(bcs, edge_id)
    IN  CASE bc.type = "Wall" ->
                LET wet == interior_state.h > p.dry_tolerance
                    u == IF wet THEN RDiv(interior_state.hu, interior_state.h) ELSE 0
                    v == IF wet THEN RDiv(interior_state.hv, interior_state.h) ELSE 0
                    un == RMul(u, normal.x) + RMul(v, normal.y)
                    u2 == -u
                    v2 == -v
                IN  [interior_state EXCEPT !.hu = RMul(interior_state.h, u2),
                                           !.hv = RMul(interior_state.h, v2)]
          [] bc.type = "Open" -> interior_state
          [] bc.type = "Inflow" -> bc.value
          [] bc.type = "Outflow" -> interior_state
          [] OTHER -> interior_state

apply_boundary_condition(p, bcs, interior_state, edge_id, normal) ==
    LET bc == At(bcs, edge_id)
    IN  CASE bc.type = "Wall" ->
                LET wet == interior_state.h > p.dry_tolerance
                    u == IF wet THEN RDiv(interior_state.hu, interior_state.h) ELSE 0
                    v == IF wet THEN RDiv(interior_state.hv, interior_state.h) ELSE 0
                    un == RMul(u, normal.x) + RMul(v, normal.y)
                    u2 == u - RMul(RMul(2 * S, un), normal.x)
                    v2 == v - RMul(RMul(2 * S, un), normal.y)
                IN  [interior_state EXCEPT !.hu = RMul(interior_state.h, u2),
                                           !.hv = RMul(interior_state.h, v2)]
          [] bc.type = "Open" -> interior_state
          [] bc.type = "Inflow" -> bc.value
          [] bc.type = "Outflow" -> interior_state
          [] OTHER -> interior_state

compute_source_terms(p, triangle_id, s) ==
    IF p.friction > 0 /\ s.h > p.dry_tolerance
    THEN LET u == RDiv(s.hu, s.h)
             v == RDiv(s.hv, s.h)
             speed == RSqrt(RMul(u, u) + RMul(v, v))
             friction_coeff ==
                 RDiv(RMul(RMul(RMul(p.gravity, p.friction), p.friction), speed),
                      RPow43(s.h))
         IN  State(0, -RMul(friction_coeff, s.hu), -RMul(friction_coeff, s.hv))
    ELSE ZeroState

\* A faulty ScaledFlux, for testing the sensitivity of InteriorPolicyIgnored:
\* an edge whose policy is not Wall takes its right state from the policy,
\* whether it has a second triangle or not
ScaledFluxPolicyFirst(m, p, bcs, st, dt, i) ==
    LET edge == At(m.edges, i)
        left_id == edge.triangles[1]
        right_id == edge.triangles[2]
    IN  IF left_id < 0 THEN ZeroState
        ELSE
        LET left_state == At(st, left_id)
            right_state == IF right_id >= 0 /\ At(bcs, i).type = "Wall"
                           THEN At(st, right_id)
                           ELSE apply_boundary_condition(p, bcs, left_state, i, edge.normal)
            flux == compute_hll_flux(p, left_state, right_state, edge.normal, p.gravity)
        IN  SScale(SScale(flux, edge.length), dt)

\* compute_fluxes, up to "Update residuals": flux * edge.length * dt of
\* edge i (nothing for an edge the loop skips with "continue")
ScaledFlux(m, p, bcs, st, dt, i) ==
    LET edge == At(m.edges, i)
        left_id == edge.triangles[1]
        right_id == edge.triangles[2]
    IN  IF left_id < 0 THEN ZeroState
        ELSE
        LET left_state == At(st, left_id)
            right_state == IF right_id >= 0 THEN At(st, right_id)
                           ELSE apply_boundary_condition(p, bcs, left_state, i, edge.normal)
            flux == compute_hll_flux(p, left_state, right_state, edge.normal, p.gravity)
        IN  SScale(SScale(flux, edge.length), dt)

\* A faulty EdgeToCell, for testing the sensitivity of MassConserved: the
\* flux leaves triangles[0] and never arrives in triangles[1]
EdgeToCellLeftOnly(m, scaled, i, c) ==
    LET edge == At(m.edges, i)
        left_id == edge.triangles[1]
    IN  IF left_id = c
        THEN SSub(ZeroState, SDivide(At(scaled, i), At(m.triangles, left_id).area))
        ELSE ZeroState

\* What edge i adds to the residual of cell c: -flux_contribution if c is
\* its triangles[0], +flux_contribution if c is its triangles[1]
EdgeToCell(m, scaled, i, c) ==
    LET edge == At(m.edges, i)
        left_id == edge.triangles[1]
        right_id == edge.triangles[2]
        to_left == IF left_id = c
                   THEN SDivide(At(scaled, i), At(m.triangles, left_id).area)
                   ELSE ZeroState
        to_right == IF left_id >= 0 /\ right_id = c
                    THEN SDivide(At(scaled, i), At(m.triangles, right_id).area)
                    ELSE ZeroState
    IN  SSub(to_right, to_left)

RECURSIVE SumStates(_, _, _)
\* v[lo] + ... + v[hi] of States
SumStates(v, lo, hi) ==
    IF lo > hi THEN ZeroState
    ELSE IF lo = hi THEN v[lo]
    ELSE LET mid == (lo + hi) \div 2
         IN  SAdd(SumStates(v, lo, mid), SumStates(v, mid + 1, hi))

\* compute_fluxes: the residuals it leaves, starting from all-zero ones (with
\* no edge the loop body never runs)
compute_fluxes(m, p, bcs, st, dt) ==
    LET scaled == [i \in 1..Len(m.edges) |-> ScaledFlux(m, p, bcs, st, dt, i - 1)]
    IN  IF scaled = << >>
        THEN [c \in 1..Len(st) |-> ZeroState]
        ELSE [c \in 1..Len(st) |->
                SumStates([i \in 1..Len(m.edges) |-> EdgeToCell(m, scaled, i - 1, c - 1)],
                          1, Len(m.edges))]

apply_source_terms(p, st, residuals, dt) ==
    [i \in 1..Len(st) |->
        SAdd(residuals[i], SScale(compute_source_terms(p, i - 1, st[i]), dt))]

\* What step(dt) adds to the state: fluxes, then source terms
Residuals(m, p, bcs, st, dt) ==
    apply_source_terms(p, st, compute_fluxes(m, p, bcs, st, dt), dt)

\* update_state before its positivity branch: state_[i] += residuals[i]
Accumulate(st, residuals) == [i \in 1..Len(st) |-> SAdd(st[i], residuals[i])]

\* A faulty Positivity, for testing the sensitivity of DepthNonNegative: no
\* clamp at all
PositivityOff(p, s) == s

\* A faulty Positivity, for testing the sensitivity of DryClamp: the depth is
\* set to zero and the momentum is kept
PositivityDepthOnly(p, s) == IF s.h < p.dry_tolerance THEN [s EXCEPT !.h = 0] ELSE s

\* update_state's positivity branch on one cell
Positivity(p, s) == IF s.h < p.dry_tolerance THEN ZeroState ELSE s

update_state(p, st, residuals) ==
    [i \in 1..Len(st) |-> Positivity(p, SAdd(st[i], residuals[i]))]

\* A faulty CellSpeed, for testing the sensitivity of TimeStepPositive: the
\* celerity sqrt(g h) is left out
CellSpeedNoCelerity(p, s) ==
    LET u == RDiv(s.hu, s.h)
        v == RDiv(s.hv, s.h)
    IN  RSqrt(RMul(u, u) + RMul(v, v))

\* |v| + sqrt(g h) of a wet cell (max_wave_speed's loop body)
CellSpeed(p, s) ==
    LET u == RDiv(s.hu, s.h)
        v == RDiv(s.hv, s.h)
    IN  RSqrt(RMul(u, u) + RMul(v, v)) + RSqrt(RMul(p.gravity, s.h))

max_wave_speed(p, st) ==
    LET speeds == {CellSpeed(p, st[i]) :
                      i \in {k \in 1..Len(st) : st[k].h > p.dry_tolerance}}
    IN  IF speeds = {} THEN 0
        ELSE Max(0, CHOOSE x \in speeds : \A y \in speeds : y <= x)

\* compute_time_step; the literal 1e-10 is below the model's resolution, so
\* max_speed < 1e-10 is max_speed <= 0
compute_time_step(m, p, st) ==
    LET max_speed == max_wave_speed(p, st)
        min_dx == min_edge_length(m)
    IN  IF max_speed <= 0
        THEN RDiv(RMul(p.cfl, min_dx), RSqrt(RMul(p.gravity, p.min_depth)))
        ELSE RDiv(RMul(p.cfl, min_dx), max_speed)

total_mass(m, st) ==
    SumReals([i \in 1..Len(st) |-> RMul(st[i].h, m.triangles[i].area)], 1, Len(st))

-----------------------------------------------------------------------------
(* Bounds and inputs of the model                                          *)

MaxCalls == 3      \* public calls made on one solver
MaxNx == 3         \* create_rectangular is called with nx in 1..MaxNx
MaxNy == 3         \* and ny in 1..MaxNy
MaxExtent == 4     \* and width, height in 1..MaxExtent

\* SolverParameters: gravity and cfl are the defaults; min_depth (default
\* 1e-6) and dry_tolerance (default 1e-8) are the smallest values that keep
\* 0 < dry_tolerance < min_depth with a depth strictly between 0 and
\* dry_tolerance representable
DefaultParameters ==
    [gravity |-> 981, cfl |-> S \div 2, friction |-> 0,
     min_depth |-> 5, dry_tolerance |-> 2]

SolverMeshArgs == {<<3 * S, 2 * S, 1, 1>>, <<2 * S, 2 * S, 2, 2>>}

\* States handed to set_constant_state: at rest, moving, below the dry
\* tolerance at rest and moving, and with a negative depth
ConstantStates ==
    {State(S, 0, 0), State(S, 30, -20), State(1, 0, 0), State(1, 5, 0),
     State(-S \div 2, 0, 0)}

\* A dam break: depth 2 left of the middle of the domain, 0.5 right of it
DamBreak(m) ==
    [i \in 1..Len(m.triangles) |->
        IF m.triangles[i].centroid.x < m.nodes[Len(m.nodes)].x \div 2 THEN State(2 * S, 0, 0)
                                         ELSE State(S \div 2, 0, 0)]

\* A bed rising with x, and the lake at rest over it with surface at 2
SlopedBed(m) == [i \in 1..Len(m.triangles) |-> m.triangles[i].centroid.x \div 2]
LakeAtRest(m) ==
    [i \in 1..Len(m.triangles) |-> State(2 * S - SlopedBed(m)[i], 0, 0)]

InitialArrays(m) == {DamBreak(m), LakeAtRest(m), <<State(S, 0, 0)>> \o DamBreak(m)}
BathymetryArrays(m) == {SlopedBed(m), <<0>> \o SlopedBed(m)}
BoundaryPolicies ==
    {BoundaryCondition("Open", ZeroState), BoundaryCondition("Inflow", State(S, 50, 0))}
\* edge 0 is a boundary edge and edge 1 an interior one in every grid
EdgeIds(m) == {0, 1, Len(m.edges)}
TargetTimes == {10, 25}

-----------------------------------------------------------------------------
(* The solver as a state machine                                           *)

\* The states the model steps from: depths and momenta within the range in
\* which no product of the kernels leaves TLC's integers
CellInRange(p, s) ==
    /\ Abs(s.h) <= 10 * S
    /\ Abs(s.hu) <= 50 * S
    /\ Abs(s.hv) <= 50 * S
    /\ s.h > p.dry_tolerance => Abs(s.hu) <= 20 * s.h /\ Abs(s.hv) <= 20 * s.h

InRange(p, st) == {i \in 1..Len(st) : ~CellInRange(p, st[i])} = {}

AllWalls(m, bcs) ==
    \A i \in 1..Len(m.edges) :
        is_boundary_edge(m, i - 1) => bcs[i].type = "Wall"

\* hist records, since the last state given to the solver (inj): whether
\* every step ran with all boundary edges Wall (walls), the bathymetries
\* steps ran over (beds), whether a step's positivity clamp changed a cell
\* (clamped), the number of steps (steps); and of the last step the state it
\* started from (before), the state it reached before the positivity branch
\* (unclamped) and its dt.  calls counts the calls made.
Injected(st) ==
    [inj |-> st, walls |-> TRUE, beds |-> {}, clamped |-> FALSE, before |-> st,
     unclamped |-> st, dt |-> 0, steps |-> 0, calls |-> hist.calls + 1]

\* Solver::Solver on the mesh create_rectangular returned
Init ==
    /\ \E a \in SolverMeshArgs :
          /\ mesh_ = create_rectangular(a[1], a[2], a[3], a[4])
          /\ args = [op |-> "Solver", mesh |-> a]
    /\ params_ = DefaultParameters
    /\ state_ = [i \in 1..num_triangles(mesh_) |-> ZeroState]
    /\ state_new_ = [i \in 1..num_triangles(mesh_) |-> ZeroState]
    /\ bathymetry_ = [i \in 1..num_triangles(mesh_) |-> 0]
    /\ boundary_conditions_ = [i \in 1..num_edges(mesh_) |-> DefaultBoundaryCondition]
    /\ current_time_ = 0
    /\ step_count_ = 0
    /\ pc = "idle"
    /\ result = "ok"
    /\ hist = [inj |-> state_, walls |-> TRUE, beds |-> {}, clamped |-> FALSE,
               before |-> state_, unclamped |-> state_, dt |-> 0, steps |-> 0,
               calls |-> 0]

CanCall == pc = "idle" /\ hist.calls < MaxCalls

\* A faulty set_initial_condition, for testing the sensitivity of
\* RejectsWrongLength: the size of the array is not compared
set_initial_condition_unchecked(initial_state) ==
    /\ CanCall
    /\ args' = [op |-> "set_initial_condition", initial_state |-> initial_state]
    /\ result' = "ok"
    /\ state_' = initial_state
    /\ state_new_' = initial_state
    /\ hist' = Injected(initial_state)
    /\ UNCHANGED <<mesh_, params_, bathymetry_, boundary_conditions_,
                   current_time_, step_count_, pc>>

set_initial_condition(initial_state) ==
    /\ CanCall
    /\ args' = [op |-> "set_initial_condition", initial_state |-> initial_state]
    /\ IF Len(initial_state) # num_triangles(mesh_)
       THEN /\ result' = "runtime_error"
            /\ hist' = [hist EXCEPT !.calls = @ + 1]
            /\ UNCHANGED <<state_, state_new_>>
       ELSE /\ result' = "ok"
            /\ state_' = initial_state
            /\ state_new_' = initial_state
            /\ hist' = Injected(initial_state)
    /\ UNCHANGED <<mesh_, params_, bathymetry_, boundary_conditions_,
                   current_time_, step_count_, pc>>

set_constant_state(s) ==
    /\ CanCall
    /\ args' = [op |-> "set_constant_state", state |-> s]
    /\ result' = "ok"
    /\ state_' = [i \in 1..Len(state_) |-> s]
    /\ state_new_' = state_'
    /\ hist' = Injected(state_')
    /\ UNCHANGED <<mesh_, params_, bathymetry_, boundary_conditions_,
                   current_time_, step_count_, pc>>

\* A faulty set_bathymetry, for testing the sensitivity of SizesMatchMesh: the
\* size of the array is not compared
set_bathymetry_unchecked(bathymetry) ==
    /\ CanCall
    /\ args' = [op |-> "set_bathymetry", bathymetry |-> bathymetry]
    /\ result' = "ok"
    /\ bathymetry_' = bathymetry
    /\ hist' = [hist EXCEPT !.calls = @ + 1]
    /\ UNCHANGED <<mesh_, params_, state_, state_new_, boundary_conditions_,
                   current_time_, step_count_, pc>>

set_bathymetry(bathymetry) ==
    /\ CanCall
    /\ args' = [op |-> "set_bathymetry", bathymetry |-> bathymetry]
    /\ IF Len(bathymetry) # num_triangles(mesh_)
       THEN /\ result' = "runtime_error"
            /\ UNCHANGED bathymetry_
       ELSE /\ result' = "ok"
            /\ bathymetry_' = bathymetry
    /\ hist' = [hist EXCEPT !.calls = @ + 1]
    /\ UNCHANGED <<mesh_, params_, state_, state_new_, boundary_conditions_,
                   current_time_, step_count_, pc>>

\* A faulty set_boundary_condition, for testing the sensitivity of
\* RejectsEdgeOutOfRange: edge_id == size() passes the comparison and the
\* last entry is written
set_boundary_condition_off_by_one(edge_id, bc) ==
    /\ CanCall
    /\ args' = [op |-> "set_boundary_condition", edge_id |-> edge_id, bc |-> bc]
    /\ IF edge_id > Len(boundary_conditions_)
       THEN /\ result' = "out_of_range"
            /\ UNCHANGED boundary_conditions_
       ELSE /\ result' = "ok"
            /\ boundary_conditions_' =
                  [boundary_conditions_ EXCEPT
                      ![Min(edge_id + 1, Len(boundary_conditions_))] = bc]
    /\ hist' = [hist EXCEPT !.calls = @ + 1]
    /\ UNCHANGED <<mesh_, params_, state_, state_new_, bathymetry_,
                   current_time_, step_count_, pc>>

set_boundary_condition(edge_id, bc) ==
    /\ CanCall
    /\ args' = [op |-> "set_boundary_condition", edge_id |-> edge_id, bc |-> bc]
    /\ IF edge_id >= Len(boundary_conditions_)
       THEN /\ result' = "out_of_range"
            /\ UNCHANGED boundary_conditions_
       ELSE /\ result' = "ok"
            /\ boundary_conditions_' = [boundary_conditions_ EXCEPT ![edge_id + 1] = bc]
    /\ hist' = [hist EXCEPT !.calls = @ + 1]
    /\ UNCHANGED <<mesh_, params_, state_, state_new_, bathymetry_,
                   current_time_, step_count_, pc>>

\* A faulty set_all_boundaries, for testing the sensitivity of
\* AllBoundariesFrame: is_boundary_edge is not consulted
set_all_boundaries_every_edge(bc) ==
    /\ CanCall
    /\ args' = [op |-> "set_all_boundaries", bc |-> bc]
    /\ result' = "ok"
    /\ boundary_conditions_' = [i \in 1..Len(boundary_conditions_) |-> bc]
    /\ hist' = [hist EXCEPT !.calls = @ + 1]
    /\ UNCHANGED <<mesh_, params_, state_, state_new_, bathymetry_,
                   current_time_, step_count_, pc>>

set_all_boundaries(bc) ==
    /\ CanCall
    /\ args' = [op |-> "set_all_boundaries", bc |-> bc]
    /\ result' = "ok"
    /\ boundary_conditions_' =
          [i \in 1..Len(boundary_conditions_) |->
              IF i <= num_edges(mesh_) /\ is_boundary_edge(mesh_, i - 1)
              THEN bc ELSE boundary_conditions_[i]]
    /\ hist' = [hist EXCEPT !.calls = @ + 1]
    /\ UNCHANGED <<mesh_, params_, state_, state_new_, bathymetry_,
                   current_time_, step_count_, pc>>

\* A step(dt) with a source term that reads the bathymetry, for testing the
\* sensitivity of BathymetryIgnored
StepBodyBedSlope(dt) ==
    LET flow == Residuals(mesh_, params_, boundary_conditions_, state_, dt)
        residuals == [i \in 1..Len(flow) |->
                         [flow[i] EXCEPT !.hu = @ - RMul(RMul(state_[i].h, bathymetry_[i]), dt)]]
    IN  /\ state_' = update_state(params_, state_, residuals)
        /\ current_time_' = current_time_ + dt
        /\ step_count_' = step_count_ + 1
        /\ hist' = [hist EXCEPT
              !.walls = @ /\ AllWalls(mesh_, boundary_conditions_),
              !.beds = @ \cup {bathymetry_},
              !.clamped = @ \/ state_' # Accumulate(state_, residuals),
              !.before = state_,
              !.unclamped = Accumulate(state_, residuals),
              !.dt = dt,
              !.steps = @ + 1,
              !.calls = IF pc = "idle" THEN @ + 1 ELSE @]
        /\ UNCHANGED <<mesh_, params_, state_new_, bathymetry_, boundary_conditions_>>

\* A faulty step(dt), for testing the sensitivity of TimeAccounting: the
\* step count is not incremented
StepBodyNoCount(dt) ==
    LET residuals == Residuals(mesh_, params_, boundary_conditions_, state_, dt)
    IN  /\ state_' = update_state(params_, state_, residuals)
        /\ current_time_' = current_time_ + dt
        /\ step_count_' = step_count_
        /\ hist' = [hist EXCEPT
              !.walls = @ /\ AllWalls(mesh_, boundary_conditions_),
              !.beds = @ \cup {bathymetry_},
              !.clamped = @ \/ state_' # Accumulate(state_, residuals),
              !.before = state_,
              !.unclamped = Accumulate(state_, residuals),
              !.dt = dt,
              !.steps = @ + 1,
              !.calls = IF pc = "idle" THEN @ + 1 ELSE @]
        /\ UNCHANGED <<mesh_, params_, state_new_, bathymetry_, boundary_conditions_>>

\* The body of step(dt): what it does to the solver and to the history
StepBody(dt) ==
    LET residuals == Residuals(mesh_, params_, boundary_conditions_, state_, dt)
    IN  /\ state_' = update_state(params_, state_, residuals)
        /\ current_time_' = current_time_ + dt
        /\ step_count_' = step_count_ + 1
        /\ hist' = [hist EXCEPT
              !.walls = @ /\ AllWalls(mesh_, boundary_conditions_),
              !.beds = @ \cup {bathymetry_},
              !.clamped = @ \/ state_' # Accumulate(state_, residuals),
              !.before = state_,
              !.unclamped = Accumulate(state_, residuals),
              !.dt = dt,
              !.steps = @ + 1,
              !.calls = IF pc = "idle" THEN @ + 1 ELSE @]
        /\ UNCHANGED <<mesh_, params_, state_new_, bathymetry_, boundary_conditions_>>

\* step(compute_time_step())
step ==
    /\ CanCall
    /\ InRange(params_, state_)
    /\ LET dt == compute_time_step(mesh_, params_, state_)
       IN  /\ args' = [op |-> "step", dt |-> dt]
           /\ StepBody(dt)
    /\ result' = "ok"
    /\ UNCHANGED pc

\* advance_to_time(target_time): entry, one pass of the loop, and return
advance_to_time(target_time) ==
    /\ CanCall
    /\ pc' = "advance"
    /\ args' = [op |-> "advance_to_time", target_time |-> target_time,
                from_time |-> current_time_, from_count |-> step_count_]
    /\ result' = "running"
    /\ hist' = [hist EXCEPT !.calls = @ + 1]
    /\ UNCHANGED <<mesh_, solver_vars>>

\* A faulty advance_loop, for testing the sensitivity of
\* AdvanceNotBackwards: the loop condition is <=
advance_loop_inclusive ==
    /\ pc = "advance"
    /\ current_time_ <= args.target_time
    /\ InRange(params_, state_)
    /\ LET dt0 == compute_time_step(mesh_, params_, state_)
           dt == IF current_time_ + dt0 > args.target_time
                 THEN args.target_time - current_time_ ELSE dt0
       IN  StepBody(dt)
    /\ UNCHANGED <<pc, args, result>>

\* A faulty advance_loop, for testing the sensitivity of AdvanceLandsOnTarget:
\* the last time step is not adjusted
advance_loop_unadjusted ==
    /\ pc = "advance"
    /\ current_time_ < args.target_time
    /\ InRange(params_, state_)
    /\ StepBody(compute_time_step(mesh_, params_, state_))
    /\ UNCHANGED <<pc, args, result>>

advance_loop ==
    /\ pc = "advance"
    /\ current_time_ < args.target_time
    /\ InRange(params_, state_)
    /\ LET dt0 == compute_time_step(mesh_, params_, state_)
           dt == IF current_time_ + dt0 > args.target_time
                 THEN args.target_time - current_time_ ELSE dt0
       IN  StepBody(dt)
    /\ UNCHANGED <<pc, args, result>>

advance_return ==
    /\ pc = "advance"
    /\ ~(current_time_ < args.target_time)
    /\ pc' = "idle"
    /\ result' = "ok"
    /\ UNCHANGED <<mesh_, solver_vars, args, hist>>

Next ==
    \/ \E s \in ConstantStates : set_constant_state(s)
    \/ \E a \in InitialArrays(mesh_) : set_initial_condition(a)
    \/ \E b \in BathymetryArrays(mesh_) : set_bathymetry(b)
    \/ \E e \in EdgeIds(mesh_), bc \in BoundaryPolicies : set_boundary_condition(e, bc)
    \/ \E bc \in BoundaryPolicies : set_all_boundaries(bc)
    \/ step
    \/ \E t \in TargetTimes : advance_to_time(t)
    \/ advance_loop
    \/ advance_return

Spec == Init /\ [][Next]_vars

TypeOK == pc \in {"idle", "advance"}
-----------------------------------------------------------------------------
(* Properties of the solver                                                *)

\* One unit of the model's resolution, standing for the tolerances the tests
\* compare with (1e-10 on the mass, 1e-8 on a cell)
Tolerance == 1

Valid(st) == \A i \in 1..Len(st) : st[i].h >= 0
Near(a, b) == Abs(a - b) <= Tolerance
NearState(a, b) == Near(a.h, b.h) /\ Near(a.hu, b.hu) /\ Near(a.hv, b.hv)
Unmoved == \A i \in 1..Len(state_) : NearState(state_[i], hist.inj[i])
Flat(b) == \A i \in 1..Len(b) : b[i] = 0
IsStill(st) == \A i \in 1..Len(st) : st[i].h > 0 /\ st[i] = State(st[1].h, 0, 0)
Balanced(st, b) ==
    /\ Len(b) = Len(st)
    /\ \A i \in 1..Len(st) :
          st[i].hu = 0 /\ st[i].hv = 0 /\ st[i].h + b[i] = st[1].h + b[1]
MassDrift == Abs(total_mass(mesh_, state_) - total_mass(mesh_, hist.inj))

StillWaterStaysStill ==
    hist.walls /\ IsStill(hist.inj) /\ (\A b \in hist.beds : Flat(b)) => Unmoved

\* C3: a state with h + z_b constant and hu = hv = 0 over a bed z_b that is
\* not flat, within walls: after any number of steps h, hu and hv of every
\* cell are unchanged
WellBalanced ==
    /\ hist.walls
    /\ hist.beds # {}
    /\ \A b \in hist.beds : Balanced(hist.inj, b) /\ ~Flat(b)
    => Unmoved

\* C4, as stated: every cell of get_state() has h >= 0 at all times,
\* whatever state was given to the solver
DepthNeverNegative == Valid(state_)

\* C4, amended: every cell of get_state() has h >= 0 once a step has run
\* since the state was given to the solver, and before that if the state
\* given has h >= 0 in every cell
DepthNonNegative == Valid(hist.inj) \/ hist.steps >= 1 => Valid(state_)

\* a step has run on a state given with a negative depth
DepthNonNegativeWitness ==
    ~Valid(hist.inj) /\ hist.steps >= 1 /\ Valid(state_)

\* The first stage of the midpoint (RK2) update of U by dt with the residual
\* the solver computes: U* = U - (dt/2) R(U)
HalfStep(m, p, bcs, U, dt) ==
    Accumulate(U, Residuals(m, p, bcs, U, RDiv(dt, ToReal(2))))

\* The second stage: U - dt R(U*)
Midpoint(m, p, bcs, U, Ustar, dt) == Accumulate(U, Residuals(m, p, bcs, Ustar, dt))

\* C5: the state step(dt) reaches from a valid state, before the positivity
\* clamp, is the two-stage midpoint update of the state it started from
\* (stated where the intermediate state U* is within the kernels' range)
StepIsMidpoint ==
    [][args'.op = "step" /\ Valid(state_) =>
          LET Ustar == HalfStep(mesh_, params_, boundary_conditions_, state_, hist'.dt)
          IN  InRange(params_, Ustar) =>
                  hist'.unclamped =
                      Midpoint(mesh_, params_, boundary_conditions_, state_, Ustar,
                               hist'.dt)]_vars

\* C11: set_initial_condition and set_bathymetry with an array whose length
\* is not the triangle count report an error and leave the state, the
\* bathymetry, the boundary policies, the time and the step count as they were
RejectsWrongLength ==
    [][/\ args'.op = "set_initial_condition"
          /\ Len(args'.initial_state) # num_triangles(mesh_)
          => /\ result' = "runtime_error"
             /\ UNCHANGED <<mesh_, solver_vars>>
       /\ args'.op = "set_bathymetry"
          /\ Len(args'.bathymetry) # num_triangles(mesh_)
          => /\ result' = "runtime_error"
             /\ UNCHANGED <<mesh_, solver_vars>>]_vars

\* a state array of the wrong length was refused after a step had given the
\* solver a state, a time and a step count to keep
RejectsWrongLengthWitness ==
    /\ args.op = "set_initial_condition"
    /\ Len(args.initial_state) # num_triangles(mesh_)
    /\ result = "runtime_error"
    /\ step_count_ >= 1 /\ current_time_ > 0
    /\ \E i \in 1..Len(state_) : state_[i] # ZeroState

\* C12: set_boundary_condition(edge_id, bc) with edge_id >= num_edges()
\* reports an error and changes no boundary policy and nothing else of the
\* solver
RejectsEdgeOutOfRange ==
    [][args'.op = "set_boundary_condition" /\ args'.edge_id >= num_edges(mesh_)
          => /\ result' = "out_of_range"
             /\ UNCHANGED <<mesh_, solver_vars>>]_vars

\* an edge id past the end was refused by a solver that holds a policy other
\* than the default
RejectsEdgeOutOfRangeWitness ==
    /\ args.op = "set_boundary_condition"
    /\ args.edge_id >= num_edges(mesh_)
    /\ result = "out_of_range"
    /\ \E i \in 1..Len(boundary_conditions_) : boundary_conditions_[i].type # "Wall"

\* The boundary policies of the run in which no set_boundary_condition was
\* made on an interior edge: those edges keep the default
WithoutInterior(m, bcs) ==
    [i \in 1..Len(bcs) |->
        IF is_boundary_edge(m, i - 1) THEN bcs[i] ELSE DefaultBoundaryCondition]

\* C13: set_boundary_condition on an interior edge changes only that edge's
\* entry, and every step, whether of step or of advance_to_time, reaches the
\* state, time and step count it reaches with the interior entries at their
\* default
InteriorPolicyIgnored ==
    [][/\ args'.op = "set_boundary_condition" /\ result' = "ok"
          /\ ~is_boundary_edge(mesh_, args'.edge_id)
          => /\ UNCHANGED <<mesh_, params_, state_, state_new_, bathymetry_,
                            current_time_, step_count_>>
             /\ WithoutInterior(mesh_, boundary_conditions_') =
                   WithoutInterior(mesh_, boundary_conditions_)
       /\ step_count_' # step_count_
          => /\ state_' =
                   update_state(params_, state_,
                                Residuals(mesh_, params_,
                                          WithoutInterior(mesh_, boundary_conditions_),
                                          state_, hist'.dt))
             /\ current_time_' = current_time_ + hist'.dt
             /\ step_count_' = step_count_ + 1
             /\ hist'.dt =
                   IF pc = "advance"
                      /\ current_time_ + compute_time_step(mesh_, params_, state_)
                            > args.target_time
                   THEN args.target_time - current_time_
                   ELSE compute_time_step(mesh_, params_, state_)]_vars

\* a step of moving water with an interior edge set to Inflow
InteriorPolicyIgnoredWitness ==
    /\ args.op = "step" /\ hist.steps >= 1
    /\ \E i \in 1..Len(boundary_conditions_) :
          ~is_boundary_edge(mesh_, i - 1) /\ boundary_conditions_[i].type = "Inflow"
    /\ \E i \in 1..Len(state_) : hist.before[i].hu # 0 /\ state_[i] # hist.before[i]

\* C15: at all times get_state() and the bathymetry have num_triangles()
\* entries and the boundary policies num_edges() entries
SizesMatchMesh ==
    /\ Len(state_) = num_triangles(mesh_)
    /\ Len(bathymetry_) = num_triangles(mesh_)
    /\ Len(boundary_conditions_) = num_edges(mesh_)

\* a bathymetry of the wrong length was refused after steps had run
SizesMatchMeshWitness ==
    /\ args.op = "set_bathymetry" /\ result = "runtime_error"
    /\ Len(args.bathymetry) # num_triangles(mesh_)
    /\ step_count_ >= 1
    /\ Len(bathymetry_) = num_triangles(mesh_)

\* The time step as C16 words it, for the solver's mesh, parameters and
\* state: cfl * min_edge_length over the largest |v| + sqrt(g h) of the cells
\* with h > dry_tolerance, over sqrt(g * min_depth) when there is none
WetCells == {i \in 1..Len(state_) : state_[i].h > params_.dry_tolerance}
WaveSpeedOf(i) ==
    LET u == RDiv(state_[i].hu, state_[i].h)
        v == RDiv(state_[i].hv, state_[i].h)
    IN  RSqrt(RMul(u, u) + RMul(v, v)) + RSqrt(RMul(params_.gravity, state_[i].h))
TimeStepAsWorded ==
    LET numerator == RMul(params_.cfl, min_edge_length(mesh_))
    IN  IF WetCells = {}
        THEN RDiv(numerator, RSqrt(RMul(params_.gravity, params_.min_depth)))
        ELSE LET fastest == CHOOSE i \in WetCells :
                                \A j \in WetCells : WaveSpeedOf(j) <= WaveSpeedOf(i)
             IN  RDiv(numerator, WaveSpeedOf(fastest))

\* C16: in every state within the kernels' range compute_time_step() is
\* strictly positive and is the time step as worded; for the same depth
\* h > dry_tolerance at rest in every cell it is
\* cfl * min_edge_length / sqrt(g h)
TimeStepPositive ==
    InRange(params_, state_) =>
        /\ compute_time_step(mesh_, params_, state_) > 0
        /\ compute_time_step(mesh_, params_, state_) = TimeStepAsWorded
        /\ IsStill(state_) /\ state_[1].h > params_.dry_tolerance =>
              compute_time_step(mesh_, params_, state_) =
                  RDiv(RMul(params_.cfl, min_edge_length(mesh_)),
                       RSqrt(RMul(params_.gravity, state_[1].h)))

\* steps have left wet cells moving at different speeds next to a dry one
TimeStepPositiveWitness ==
    /\ InRange(params_, state_) /\ hist.steps >= 1
    /\ \E i \in WetCells, j \in WetCells :
          state_[i].hu # 0 /\ WaveSpeedOf(i) # WaveSpeedOf(j)
    /\ \E k \in 1..Len(state_) : k \notin WetCells

\* Every cell is at or above the dry tolerance or exactly (0, 0, 0)
WetOrEmpty(p, st) ==
    \A i \in 1..Len(st) : st[i].h >= p.dry_tolerance \/ st[i] = ZeroState

AllEmpty(st) == \A i \in 1..Len(st) : st[i] = ZeroState
AllBelowTolerance(p, st) == \A i \in 1..Len(st) : st[i].h < p.dry_tolerance
NoInflow(m, bcs) ==
    \A i \in 1..Len(bcs) : is_boundary_edge(m, i - 1) => bcs[i].type # "Inflow"

Setters ==
    {"set_initial_condition", "set_constant_state", "set_bathymetry",
     "set_boundary_condition", "set_all_boundaries"}

\* C18: a new solver has time 0 and step count 0; each step(dt), called
\* directly or by a pass of advance_to_time, adds exactly 1 to the step count
\* and exactly dt to the time; no setter changes either
TimeAccounting ==
    /\ current_time_ = 0 /\ step_count_ = 0
    /\ [][/\ pc = "idle" /\ args'.op = "step" =>
               /\ step_count_' = step_count_ + 1
               /\ current_time_' = current_time_ + args'.dt
          /\ pc = "advance" /\ pc' = "advance" =>
               /\ step_count_' = step_count_ + 1
               /\ current_time_' = current_time_ + hist'.dt
          /\ args'.op \in Setters => UNCHANGED <<current_time_, step_count_>>]_vars

\* a setter was accepted after two steps and left their time and count
TimeAccountingWitness ==
    /\ args.op \in Setters /\ result = "ok"
    /\ step_count_ = 2 /\ current_time_ > 0

\* C19: every edge starts with the Wall policy and keeps it until one of the
\* two boundary setters is called; set_all_boundaries(bc) sets exactly the
\* boundary edges to bc and leaves the interior entries, the state, the
\* bathymetry, the time and the step count unchanged
AllBoundariesFrame ==
    /\ \A i \in 1..num_edges(mesh_) : boundary_conditions_[i].type = "Wall"
    /\ Len(boundary_conditions_) = num_edges(mesh_)
    /\ [][/\ boundary_conditions_' # boundary_conditions_ =>
               args'.op \in {"set_boundary_condition", "set_all_boundaries"}
          /\ args'.op = "set_all_boundaries" =>
               /\ boundary_conditions_' =
                     [i \in 1..num_edges(mesh_) |->
                         IF is_boundary_edge(mesh_, i - 1)
                         THEN args'.bc ELSE boundary_conditions_[i]]
               /\ UNCHANGED <<state_, bathymetry_, current_time_, step_count_>>]_vars

\* set_all_boundaries(bc) ran with an interior edge holding another policy
\* than Wall and than bc, which it kept
AllBoundariesFrameWitness ==
    /\ args.op = "set_all_boundaries"
    /\ \E i \in 1..num_edges(mesh_) :
          /\ ~is_boundary_edge(mesh_, i - 1)
          /\ boundary_conditions_[i].type \notin {"Wall", args.bc.type}
    /\ \A i \in 1..num_edges(mesh_) :
          is_boundary_edge(mesh_, i - 1) => boundary_conditions_[i] = args.bc

AdvanceNotBackwards ==
    [][pc = "advance" /\ args.target_time <= args.from_time =>
          /\ pc' = "idle" /\ result' = "ok"
          /\ current_time_ = args.from_time /\ step_count_ = args.from_count
          /\ UNCHANGED <<mesh_, solver_vars>>]_vars

\* advance_to_time(T) has returned from a call made at time T, after steps
AdvanceNotBackwardsWitness ==
    /\ pc = "idle" /\ args.op = "advance_to_time" /\ result = "ok"
    /\ args.target_time = args.from_time
    /\ current_time_ = args.from_time /\ step_count_ = args.from_count
    /\ step_count_ >= 1

-----------------------------------------------------------------------------
(* advance_to_time under the fairness of a running loop                    *)

\* A pass of advance_to_time's loop, told by the condition it runs under and
\* the step it counts: under Next these are the steps of advance_loop
LoopPass ==
    /\ pc = "advance"
    /\ current_time_ < args.target_time
    /\ InRange(params_, state_)
    /\ step_count_' = step_count_ + 1

\* A call in progress goes on: the loop takes its next pass while it has
\* one to take, and the call returns when it has none
SpecLive == Spec /\ WF_step_count_(LoopPass) /\ WF_vars(advance_return)

-----------------------------------------------------------------------------
(* compute_hll_flux as a function: one call and the call with the states   *)
(* swapped and the normal negated                                          *)

\* at rest, subcritical, supercritical to either side, below the dry
\* tolerance, empty
FluxStates ==
    {State(S, 0, 0), State(2 * S, 150, -40), State(137, -61, 83),
     State(S \div 2, 400, 0), State(S \div 2, -400, 100), State(1, 5, 0), ZeroState}

\* unit normals as compute_edge_geometry produces them on a grid
FluxNormals ==
    {Point(S, 0), Point(0, S), Point(-S, 0), Point(0, -S), Point(-71, -71),
     Point(71, -71)}

FluxGravities == {981, 162}

PNeg(q) == Point(-q.x, -q.y)
SNeg(s) == State(-s.h, -s.hu, -s.hv)

InitFlux ==
    /\ mesh_ = EmptyMesh
    /\ params_ = DefaultParameters
    /\ state_ = << >>
    /\ state_new_ = << >>
    /\ bathymetry_ = << >>
    /\ boundary_conditions_ = << >>
    /\ current_time_ = 0
    /\ step_count_ = 0
    /\ pc = "flux"
    /\ \E left \in FluxStates, right \in FluxStates, normal \in FluxNormals,
          gravity \in FluxGravities :
          args = [op |-> "compute_hll_flux", left |-> left, right |-> right,
                  normal |-> normal, gravity |-> gravity]
    /\ result = "none"
    /\ hist = [calls |-> 0]

\* The branch compute_hll_flux takes
HllBranch(p, left, right, normal, gravity) ==
    LET w == compute_wave_speeds(p, left, right, normal, gravity)
    IN  IF w.sl >= 0 THEN "left" ELSE IF w.sr <= 0 THEN "right" ELSE "blended"

\* compute_hll_flux(left, right, n, g) and compute_hll_flux(right, left, -n, g)
\* where the first of them takes the given branch
FluxPair(branch) ==
    /\ pc = "flux"
    /\ HllBranch(params_, args.left, args.right, args.normal, args.gravity) = branch
    /\ pc' = "done"
    /\ result' =
          [branch |-> branch,
           forward |-> compute_hll_flux(params_, args.left, args.right,
                                        args.normal, args.gravity),
           backward |-> compute_hll_flux(params_, args.right, args.left,
                                         PNeg(args.normal), args.gravity)]
    /\ hist' = [calls |-> 2]
    /\ UNCHANGED <<mesh_, solver_vars, args>>

NextFlux ==
    \/ FluxPair("left")
    \/ FluxPair("right")
    \/ FluxPair("blended")

SpecFlux == InitFlux /\ [][NextFlux]_vars

\* C7: compute_hll_flux(left, right, n, g) = -compute_hll_flux(right, left,
\* -n, g) in every component, whichever branch is taken
FluxAntisymmetric == pc = "done" => result.forward = SNeg(result.backward)

\* a blended flux between two different moving states across a diagonal edge
FluxAntisymmetricWitness ==
    /\ pc = "done" /\ result.branch = "blended"
    /\ args.left # args.right
    /\ args.left.hu # 0 /\ args.right.hu # 0
    /\ args.normal.x # 0 /\ args.normal.y # 0
    /\ result.forward.h # 0 /\ result.forward.hu # 0 /\ result.forward.hv # 0

\* C24: when the left and the right depth are both below the dry tolerance,
\* the flux is exactly (0, 0, 0), whatever the momenta and the normal
DryFluxIsZero ==
    pc = "done" /\ args.left.h < params_.dry_tolerance
                /\ args.right.h < params_.dry_tolerance
        => result.forward = ZeroState

WaveSpeedsNow ==
    compute_wave_speeds(params_, args.left, args.right, args.normal, args.gravity)

\* C30: with gravity > 0 and min_depth > 0, sl < sr for every pair of states
\* and every normal; the blended branch is taken only with sl < 0 < sr, so
\* its divisor sl - sr is not zero; a state with h <= dry_tolerance is given
\* the normal velocity 0 instead of a quotient by h
WaveSpeedsOrdered ==
    pc = "done" /\ args.gravity > 0 /\ params_.min_depth > 0 =>
        /\ WaveSpeedsNow.sl < WaveSpeedsNow.sr
        /\ result.branch = "blended" =>
              /\ WaveSpeedsNow.sl < 0 /\ 0 < WaveSpeedsNow.sr
              /\ WaveSpeedsNow.sl - WaveSpeedsNow.sr # 0
        /\ result.branch = "left" => WaveSpeedsNow.sl >= 0
        /\ result.branch = "right" => WaveSpeedsNow.sl < 0 /\ WaveSpeedsNow.sr <= 0
        /\ \A s \in {args.left, args.right} :
              s.h <= params_.dry_tolerance => NormalVelocity(params_, s, args.normal) = 0

\* a blended flux between a dry state that has momentum and an empty state
WaveSpeedsOrderedWitness ==
    /\ pc = "done" /\ result.branch = "blended"
    /\ args.left.h > 0 /\ args.left.h <= params_.dry_tolerance /\ args.left.hu # 0
    /\ args.right = ZeroState
    /\ WaveSpeedsNow.sl = -WaveSpeedsNow.sr

-----------------------------------------------------------------------------
(* Mesh::create_rectangular on a new Mesh                                  *)

Extents == {ToReal(k) : k \in 1..MaxExtent}

InitMesh ==
    /\ mesh_ = EmptyMesh
    /\ params_ = DefaultParameters
    /\ state_ = << >>
    /\ state_new_ = << >>
    /\ bathymetry_ = << >>
    /\ boundary_conditions_ = << >>
    /\ current_time_ = 0
    /\ step_count_ = 0
    /\ pc = "mesh"
    /\ args = [op |-> "Mesh"]
    /\ result = "ok"
    /\ hist = [calls |-> 0]

CreateRectangular(width, height, nx, ny) ==
    /\ pc = "mesh"
    /\ mesh_' = create_rectangular(width, height, nx, ny)
    /\ args' = [op |-> "create_rectangular", width |-> width, height |-> height,
                nx |-> nx, ny |-> ny]
    /\ pc' = "built"
    /\ hist' = [calls |-> 1]
    /\ UNCHANGED <<solver_vars, result>>

NextMesh ==
    \E width \in Extents, height \in Extents, nx \in 1..MaxNx, ny \in 1..MaxNy :
        CreateRectangular(width, height, nx, ny)

SpecMesh == InitMesh /\ [][NextMesh]_vars

\* C8: create_rectangular(width, height, nx, ny) returns a mesh with
\* (nx+1)*(ny+1) nodes and 2*nx*ny triangles
MeshCounts ==
    pc = "built" =>
        /\ num_nodes(mesh_) = (args.nx + 1) * (args.ny + 1)
        /\ num_triangles(mesh_) = 2 * args.nx * args.ny

\* a grid with more than one cell each way and nx # ny
MeshCountsWitness ==
    /\ pc = "built" /\ args.nx >= 2 /\ args.ny >= 2 /\ args.nx # args.ny
    /\ num_triangles(mesh_) = 2 * args.nx * args.ny

\* What the rounding of width/nx and height/ny to the model's resolution can
\* move the total area by, in units of that resolution: half a unit on each
\* of the nx (ny) cell widths (heights), and one unit per triangle area
AreaErrorBound(width, height, nx, ny) ==
    (width * ny + height * nx) \div (2 * S) + 1 + 2 * nx * ny

\* C9: every triangle of create_rectangular(width, height, nx, ny) has area
\* > 0, equal to (width/nx)*(height/ny)/2, and total_area() is width*height:
\* exactly where width/nx, height/ny and the cell area are representable,
\* within the rounding of width/nx and height/ny otherwise
TriangleAreas ==
    pc = "built" =>
        LET dx == RDiv(args.width, ToReal(args.nx))
            dy == RDiv(args.height, ToReal(args.ny))
            exact == /\ dx * args.nx = args.width
                     /\ dy * args.ny = args.height
                     /\ (dx * dy) % (2 * S) = 0
        IN  /\ \A i \in 1..Len(mesh_.triangles) :
                  /\ mesh_.triangles[i].area > 0
                  /\ mesh_.triangles[i].area = RMul(RMul(dx, dy), S \div 2)
            /\ Abs(total_area(mesh_) - RMul(args.width, args.height))
                  <= AreaErrorBound(args.width, args.height, args.nx, args.ny)
            /\ exact => total_area(mesh_) = RMul(args.width, args.height)

\* a grid of several cells each way whose cell area is representable
TriangleAreasWitness ==
    /\ pc = "built" /\ args.nx >= 2 /\ args.ny >= 2
    /\ args.width # args.height
    /\ RDiv(args.width, ToReal(args.nx)) * args.nx = args.width
    /\ RDiv(args.height, ToReal(args.ny)) * args.ny = args.height
    /\ (RDiv(args.width, ToReal(args.nx)) * RDiv(args.height, ToReal(args.ny)))
          % (2 * S) = 0
    /\ total_area(mesh_) = RMul(args.width, args.height)

\* The triangles that have both nodes of edge e among their nodes
TrianglesAt(m, e) ==
    {t \in 0..(Len(m.triangles) - 1) :
        \A k \in 1..2 : \E j \in 1..3 : At(m.triangles, t).nodes[j] = e.nodes[k]}

BoundaryEdges(m) == {i \in 0..(Len(m.edges) - 1) : is_boundary_edge(m, i)}

\* C10: the mesh of create_rectangular(width, height, nx, ny) has 2*(nx+ny)
\* boundary edges; an interior edge has exactly two adjacent triangles, a
\* boundary edge exactly one, with triangles[1] = -1
EdgeConservation ==
    pc = "built" =>
        /\ Cardinality(BoundaryEdges(mesh_)) = 2 * (args.nx + args.ny)
        /\ \A i \in 0..(Len(mesh_.edges) - 1) :
              LET e == At(mesh_.edges, i)
              IN  IF is_boundary_edge(mesh_, i)
                  THEN TrianglesAt(mesh_, e) = {e.triangles[1]}
                  ELSE /\ TrianglesAt(mesh_, e) = {e.triangles[1], e.triangles[2]}
                       /\ e.triangles[1] # e.triangles[2]

\* a grid with interior nodes: boundary and interior edges of all three
\* directions
EdgeConservationWitness ==
    /\ pc = "built" /\ args.nx >= 2 /\ args.ny >= 3
    /\ Cardinality(BoundaryEdges(mesh_)) = 2 * (args.nx + args.ny)
    /\ Cardinality(BoundaryEdges(mesh_)) < Len(mesh_.edges)

\* The sightings of the node pair key: the (triangle, side) pairs for which
\* build_connectivity calls find_or_create_edge with that key
Sightings(m, key) ==
    {ts \in (0..(Len(m.triangles) - 1)) \X (0..2) :
        LET tri == At(m.triangles, ts[1])
        IN  edge_key(tri.nodes[ts[2] + 1], tri.nodes[((ts[2] + 1) % 3) + 1]) = key}

SideKeys(m) ==
    {edge_key(At(m.triangles, t).nodes[i + 1], At(m.triangles, t).nodes[((i + 1) % 3) + 1]) :
        t \in 0..(Len(m.triangles) - 1), i \in 0..2}

\* C21: each node pair that is a side of some triangle is exactly one edge,
\* with nodes[0] < nodes[1]; triangles[0] is the lowest triangle having the
\* side, triangles[1] is -1 or a later triangle having it; no pair is sighted
\* more than twice
EdgeDiscoveryExact ==
    pc = "built" =>
        /\ \A key \in SideKeys(mesh_) :
              Cardinality({i \in 1..Len(mesh_.edges) : mesh_.edges[i].nodes = key}) = 1
        /\ \A i \in 1..Len(mesh_.edges) :
              LET e == mesh_.edges[i]
                  seen == {ts[1] : ts \in Sightings(mesh_, e.nodes)}
              IN  /\ e.nodes[1] < e.nodes[2]
                  /\ e.nodes \in SideKeys(mesh_)
                  /\ e.triangles[1] >= 0
                  /\ e.triangles[1] \in seen
                  /\ \A t \in seen : e.triangles[1] <= t
                  /\ \/ e.triangles[2] = -1 /\ seen = {e.triangles[1]}
                     \/ e.triangles[2] > e.triangles[1] /\ seen = {e.triangles[1], e.triangles[2]}
                  /\ Cardinality(Sightings(mesh_, e.nodes)) <= 2

\* a grid in which an edge sighted twice joins triangles of different quads,
\* beside an edge sighted once
EdgeDiscoveryExactWitness ==
    /\ pc = "built"
    /\ \E i \in 1..Len(mesh_.edges) :
          LET e == mesh_.edges[i]
          IN  /\ e.triangles[2] > e.triangles[1] + 1
              /\ Cardinality(Sightings(mesh_, e.nodes)) = 2
    /\ \E i \in 1..Len(mesh_.edges) : mesh_.edges[i].triangles[2] = -1

\* C20: for every edge of the mesh create_rectangular built, the stored normal
\* points outward from the cell triangles[0]: its dot product with
\* (midpoint - centroid of triangles[0]) is positive
OutwardNormals ==
    pc = "built" =>
        \A i \in 1..Len(mesh_.edges) :
            LET edge == mesh_.edges[i]
                owner == At(mesh_.triangles, edge.triangles[1])
            IN  Dot(edge.normal, PSub(edge.midpoint, owner.centroid)) > 0

-----------------------------------------------------------------------------
(* Mesh::create_rectangular with extents that may be zero                  *)

ExtentsFromZero == {ToReal(k) : k \in 0..MaxExtent}

NextMeshAny ==
    \E width \in ExtentsFromZero, height \in ExtentsFromZero,
       nx \in 1..MaxNx, ny \in 1..MaxNy :
        CreateRectangular(width, height, nx, ny)

SpecMeshAny == InitMesh /\ [][NextMeshAny]_vars

\* C14: a mesh that create_rectangular returns has no triangle of area zero
\* (arguments that would give one end in an error instead of a mesh)
NoDegenerateTriangle ==
    pc = "built" /\ result = "ok" =>
        \A i \in 1..Len(mesh_.triangles) : mesh_.triangles[i].area > 0

-----------------------------------------------------------------------------
(* compute_fluxes with USE_OPENMP: the iterations of the edge loop run     *)
(* concurrently, each residual update is one "omp atomic" read-modify-     *)
(* write of a double.  An iteration is its own thread here, which covers   *)
(* every assignment of iterations to workers.                              *)

\* The model's double keeps this many significant bits
MantissaBits == 4

RECURSIVE Pow2(_)
Pow2(n) == IF n = 0 THEN 1 ELSE 2 * Pow2(n - 1)

RECURSIVE UlpFrom(_, _)
\* The spacing of the representable values around the magnitude a
UlpFrom(a, u) == IF a < Pow2(MantissaBits) * u THEN u ELSE UlpFrom(a, 2 * u)

\* Rounding of an exact result to the nearest representable value, ties to
\* even
FlRound(x) ==
    LET a == Abs(x)
        u == UlpFrom(a, 1)
        q == a \div u
        r == a % u
        n == IF 2 * r > u \/ (2 * r = u /\ q % 2 = 1) THEN q + 1 ELSE q
    IN  IF x < 0 THEN -(n * u) ELSE n * u

\* a += b and a -= b on doubles
FlAdd(a, b) == FlRound(a + b)
FlSub(a, b) == FlRound(a - b)

\* The residual updates one iteration of the edge loop makes: none for an
\* edge without triangles[0], three for a boundary edge, six otherwise
NumUpdates(m, i) ==
    LET edge == At(m.edges, i)
    IN  IF edge.triangles[1] < 0 THEN 0 ELSE IF edge.triangles[2] >= 0 THEN 6 ELSE 3

Component(k) == IF k % 3 = 0 THEN "h" ELSE IF k % 3 = 1 THEN "hu" ELSE "hv"

\* The k-th update (k = 0..5) of iteration i: residuals[left_id] -= the
\* component of flux_contribution for k < 3, residuals[right_id] += for k >= 3
AtomicUpdate(m, scaled, residuals, i, k) ==
    LET edge == At(m.edges, i)
        cell == IF k < 3 THEN edge.triangles[1] ELSE edge.triangles[2]
        c == SDivide(At(scaled, i), At(m.triangles, cell).area)[Component(k)]
    IN  [residuals EXCEPT ![cell + 1][Component(k)] =
            IF k < 3 THEN FlSub(@, c) ELSE FlAdd(@, c)]

RECURSIVE SequentialFrom(_, _, _, _, _)
\* The loop without USE_OPENMP, from update k of iteration i on
SequentialFrom(m, scaled, residuals, i, k) ==
    IF i >= Len(m.edges) THEN residuals
    ELSE IF k >= NumUpdates(m, i) THEN SequentialFrom(m, scaled, residuals, i + 1, 0)
    ELSE SequentialFrom(m, scaled, AtomicUpdate(m, scaled, residuals, i, k), i, k + 1)

\* The states the loop is run on
RaceStates(m) ==
    {DamBreak(m), [i \in 1..Len(m.triangles) |-> State(S, 30, -20)],
     [i \in 1..Len(m.triangles) |-> State(i * (S \div 2), 200, 50)]}

RaceTimeSteps == {10, 25}

\* The parameters the loops are run with: frictionless and with friction
RaceParameters == {DefaultParameters, [DefaultParameters EXCEPT !.friction = 10]}

\* step(dt) has entered compute_fluxes: residuals value-initialised, no
\* iteration started.  result holds the residuals; hist.done the number of
\* updates each iteration of the edge loop has made, hist.sourced and
\* hist.updated the cells the later loops have visited, hist.entry the state
\* step was called on, hist.fluxed the residuals compute_fluxes returned.
InitRace ==
    /\ mesh_ = create_rectangular(3 * S, 2 * S, 1, 1)
    /\ params_ \in RaceParameters
    /\ \E st \in RaceStates(mesh_) : state_ = st
    /\ state_new_ = state_
    /\ bathymetry_ = [i \in 1..num_triangles(mesh_) |-> 0]
    /\ boundary_conditions_ = [i \in 1..num_edges(mesh_) |-> DefaultBoundaryCondition]
    /\ current_time_ = 0
    /\ step_count_ = 0
    /\ pc = "flux_loop"
    /\ \E dt \in RaceTimeSteps : args = [op |-> "step", dt |-> dt]
    /\ result = [i \in 1..num_triangles(mesh_) |-> ZeroState]
    /\ hist = [done |-> [i \in 1..num_edges(mesh_) |-> 0], sourced |-> {},
               updated |-> {}, entry |-> state_, fluxed |-> << >>]

ScaledNow ==
    [i \in 1..Len(mesh_.edges) |->
        ScaledFlux(mesh_, params_, boundary_conditions_, state_, args.dt, i - 1)]

\* Iteration i of the edge loop makes its next update
Update(i) ==
    /\ pc = "flux_loop"
    /\ hist.done[i + 1] < NumUpdates(mesh_, i)
    /\ result' = AtomicUpdate(mesh_, ScaledNow, result, i, hist.done[i + 1])
    /\ hist' = [hist EXCEPT !.done[i + 1] = @ + 1]
    /\ UNCHANGED <<mesh_, solver_vars, pc, args>>

AllFluxed == \A i \in 0..(num_edges(mesh_) - 1) : hist.done[i + 1] = NumUpdates(mesh_, i)
AllSourced == hist.sourced = 0..(num_triangles(mesh_) - 1)
AllUpdated == hist.updated = 0..(num_triangles(mesh_) - 1)

\* A faulty Join, for testing the sensitivity of PassOrdering: the edge loop
\* is left as with "nowait", while iterations are still running
JoinNoWait ==
    /\ pc = "flux_loop"
    /\ pc' = "source_loop"
    /\ hist' = [hist EXCEPT !.fluxed = result]
    /\ UNCHANGED <<mesh_, solver_vars, args, result>>

\* The end of the parallel region of compute_fluxes: every iteration has
\* finished; step goes on to apply_source_terms
Join ==
    /\ pc = "flux_loop"
    /\ AllFluxed
    /\ pc' = "source_loop"
    /\ hist' = [hist EXCEPT !.fluxed = result]
    /\ UNCHANGED <<mesh_, solver_vars, args, result>>

\* Iteration i of apply_source_terms' loop
SourceTerm(i) ==
    /\ pc = "source_loop"
    /\ i \notin hist.sourced
    /\ result' = [result EXCEPT
                     ![i + 1] = At(apply_source_terms(params_, state_, result, args.dt), i)]
    /\ hist' = [hist EXCEPT !.sourced = @ \cup {i}]
    /\ UNCHANGED <<mesh_, solver_vars, pc, args>>

\* The end of apply_source_terms' loop; step goes on to update_state
JoinSources ==
    /\ pc = "source_loop"
    /\ AllSourced
    /\ pc' = "update_loop"
    /\ UNCHANGED <<mesh_, solver_vars, args, result, hist>>

\* Iteration i of update_state's loop
UpdateCell(i) ==
    /\ pc = "update_loop"
    /\ i \notin hist.updated
    /\ state_' = [state_ EXCEPT ![i + 1] = At(update_state(params_, state_, result), i)]
    /\ hist' = [hist EXCEPT !.updated = @ \cup {i}]
    /\ UNCHANGED <<mesh_, params_, state_new_, bathymetry_, boundary_conditions_,
                   current_time_, step_count_, pc, args, result>>

\* The end of update_state's loop and the last two lines of step
Return ==
    /\ pc = "update_loop"
    /\ AllUpdated
    /\ current_time_' = current_time_ + args.dt
    /\ step_count_' = step_count_ + 1
    /\ pc' = "done"
    /\ UNCHANGED <<mesh_, params_, state_, state_new_, bathymetry_,
                   boundary_conditions_, args, result, hist>>

NextRace ==
    \/ \E i \in 0..(num_edges(mesh_) - 1) : Update(i)
    \/ Join
    \/ \E i \in 0..(num_triangles(mesh_) - 1) : SourceTerm(i)
    \/ JoinSources
    \/ \E i \in 0..(num_triangles(mesh_) - 1) : UpdateCell(i)
    \/ Return

SpecRace == InitRace /\ [][NextRace]_vars

\* C22: whatever the interleaving of the iterations, the residuals after the
\* edge loop are those of the iterations run one after another
ScheduleIndependent ==
    pc # "flux_loop" =>
        hist.fluxed =
            SequentialFrom(mesh_,
                           [i \in 1..Len(mesh_.edges) |->
                               ScaledFlux(mesh_, params_, boundary_conditions_,
                                          hist.entry, args.dt, i - 1)],
                           [i \in 1..num_triangles(mesh_) |-> ZeroState], 0, 0)

\* C23: the source-term pass starts only after every edge's contribution is
\* in the residuals of both its cells, and the state is not written before
\* both passes are complete, so that the flux and source passes read the
\* state step was called on and the update applies their residuals to it
PassOrdering ==
    [][/\ hist'.sourced # hist.sourced => AllFluxed /\ hist'.done = hist.done
       /\ state_' # state_ => AllFluxed /\ AllSourced
       /\ pc' \in {"flux_loop", "source_loop"} => state_' = hist'.entry
       /\ pc' = "update_loop" /\ pc = "source_loop" =>
             result = apply_source_terms(params_, hist.entry, hist.fluxed, args.dt)
       /\ pc' = "done" =>
             state_' = update_state(params_, hist.entry, result)]_vars

\* a step with friction has returned with a state changed by fluxes and by
\* the friction term
PassOrderingWitness ==
    /\ pc = "done" /\ params_.friction > 0
    /\ state_ # hist.entry
    /\ result # hist.fluxed
    /\ hist.fluxed # [i \in 1..num_triangles(mesh_) |-> ZeroState]

-----------------------------------------------------------------------------
(* The friction source term on one cell: compute_source_terms, and what   *)
(* apply_source_terms and update_state make of it                          *)

SourceStates ==
    {State(S, 30, -20), State(2 * S, 150, -40), State(137, -61, 83),
     State(S \div 2, 400, 0), State(10, 10, 0), State(5, 50, 20), State(1, 5, 0),
     ZeroState}

\* Manning coefficients 0, 0.03 and 0.1
SourceFrictions == {0, 3, 10}

SourceTimeSteps == {10, 25, 71}

InitSource ==
    /\ mesh_ = EmptyMesh
    /\ \E f \in SourceFrictions : params_ = [DefaultParameters EXCEPT !.friction = f]
    /\ state_ = << >>
    /\ state_new_ = << >>
    /\ bathymetry_ = << >>
    /\ boundary_conditions_ = << >>
    /\ current_time_ = 0
    /\ step_count_ = 0
    /\ pc = "source"
    /\ \E s \in SourceStates, dt \in SourceTimeSteps :
          args = [op |-> "apply_source_terms", state |-> s, dt |-> dt]
    /\ result = "none"
    /\ hist = [calls |-> 0]

\* residuals[i] += source * dt on a zero residual, then state_[i] +=
\* residuals[i]: the cell after the friction term alone
SourceOnCell ==
    /\ pc = "source"
    /\ pc' = "done"
    /\ LET source == compute_source_terms(params_, 0, args.state)
           residual == At(apply_source_terms(params_, <<args.state>>, <<ZeroState>>,
                                             args.dt), 0)
       IN  result' = [source |-> source, after |-> SAdd(args.state, residual)]
    /\ hist' = [calls |-> 1]
    /\ UNCHANGED <<mesh_, solver_vars, args>>

NextSource == SourceOnCell

SpecSource == InitSource /\ [][NextSource]_vars

\* C25: the friction term alone never increases |hu| or |hv| of a cell, for
\* any friction coefficient >= 0 and any dt, and it is zero when the
\* coefficient is 0 or the cell is dry
FrictionDissipates ==
    pc = "done" =>
        /\ Abs(result.after.hu) <= Abs(args.state.hu)
        /\ Abs(result.after.hv) <= Abs(args.state.hv)
        /\ result.after.h = args.state.h
        /\ params_.friction = 0 \/ args.state.h <= params_.dry_tolerance =>
              result.source = ZeroState

-----------------------------------------------------------------------------
(* apply_boundary_condition at one boundary edge, and the flux between the *)
(* interior state and the ghost state it returns                           *)

GhostPolicies ==
    {BoundaryCondition("Wall", ZeroState), BoundaryCondition("Open", ZeroState),
     BoundaryCondition("Outflow", ZeroState),
     BoundaryCondition("Inflow", State(S, 50, 0))}

InitGhost ==
    /\ mesh_ = EmptyMesh
    /\ params_ = DefaultParameters
    /\ state_ = << >>
    /\ state_new_ = << >>
    /\ bathymetry_ = << >>
    /\ \E bc \in GhostPolicies : boundary_conditions_ = <<bc>>
    /\ current_time_ = 0
    /\ step_count_ = 0
    /\ pc = "ghost"
    /\ \E s \in FluxStates, normal \in FluxNormals :
          args = [op |-> "apply_boundary_condition", interior_state |-> s,
                  edge_id |-> 0, normal |-> normal]
    /\ result = "none"
    /\ hist = [calls |-> 0]

\* The boundary branch of compute_fluxes' loop body: the ghost state and the
\* flux across the edge
GhostFlux ==
    /\ pc = "ghost"
    /\ pc' = "done"
    /\ LET ghost == apply_boundary_condition(params_, boundary_conditions_,
                                             args.interior_state, args.edge_id,
                                             args.normal)
       IN  result' = [ghost |-> ghost,
                      flux |-> compute_hll_flux(params_, args.interior_state, ghost,
                                                args.normal, params_.gravity)]
    /\ hist' = [calls |-> 1]
    /\ UNCHANGED <<mesh_, solver_vars, args>>

NextGhost == GhostFlux

SpecGhost == InitGhost /\ [][NextGhost]_vars

\* The velocity of state s, zero when h <= dry_tolerance
VelocityOf(p, s) ==
    IF s.h > p.dry_tolerance THEN Point(RDiv(s.hu, s.h), RDiv(s.hv, s.h)) ELSE Point(0, 0)

\* v - 2 (v.n) n
Reflected(v, n) ==
    LET vn == Dot(v, n)
    IN  Point(v.x - RMul(RMul(2 * S, vn), n.x), v.y - RMul(RMul(2 * S, vn), n.y))

\* C26: the ghost state is, for Wall, the interior depth with the velocity
\* v - 2 (v.n) n (zero velocity when h <= dry_tolerance); for Open and
\* Outflow the interior state; for Inflow the value of the policy
GhostPerPolicy ==
    pc = "done" =>
        LET s == args.interior_state
            bc == boundary_conditions_[1]
            w == Reflected(VelocityOf(params_, s), args.normal)
        IN  /\ bc.type = "Wall" =>
                  /\ result.ghost = State(s.h, RMul(s.h, w.x), RMul(s.h, w.y))
                  /\ s.h <= params_.dry_tolerance => result.ghost = State(s.h, 0, 0)
            /\ bc.type \in {"Open", "Outflow"} => result.ghost = s
            /\ bc.type = "Inflow" => result.ghost = bc.value

\* a Wall ghost of a wet state moving along and across a diagonal normal
GhostPerPolicyWitness ==
    /\ pc = "done" /\ boundary_conditions_[1].type = "Wall"
    /\ args.interior_state.h > params_.dry_tolerance
    /\ args.normal.x # 0 /\ args.normal.y # 0
    /\ result.ghost.hu # args.interior_state.hu
    /\ result.ghost.hv # args.interior_state.hv
    /\ result.ghost.hu # -args.interior_state.hu

\* C27, as stated: for a Wall edge and an interior state with h >
\* dry_tolerance the h component of the flux is 0, whatever the normal
NoMassThroughWallExactly ==
    pc = "done" /\ boundary_conditions_[1].type = "Wall"
                /\ args.interior_state.h > params_.dry_tolerance
        => result.flux.h = 0

AxisAligned(n) == n \in {Point(S, 0), Point(-S, 0), Point(0, S), Point(0, -S)}

\* The momentum of state s along n
NormalMomentum(s, n) == RMul(s.hu, n.x) + RMul(s.hv, n.y)

\* C27, amended: for a Wall edge and an interior state with h >
\* dry_tolerance the h component of the flux is 0 within the rounding of the
\* arithmetic (here one unit plus 2% of the momentum), for a normal of
\* either sign, and exactly 0 when the ghost's
\* normal momentum is the exact opposite of the interior's and the wave
\* speeds are opposite
NoMassThroughWall ==
    pc = "done" /\ boundary_conditions_[1].type = "Wall"
                /\ args.interior_state.h > params_.dry_tolerance
        => LET w == compute_wave_speeds(params_, args.interior_state, result.ghost,
                                        args.normal, params_.gravity)
           IN  /\ S * Abs(result.flux.h)
                     <= 2 * (Abs(args.interior_state.hu) + Abs(args.interior_state.hv))
                        + S * Tolerance
               /\ /\ NormalMomentum(result.ghost, args.normal)
                       = -NormalMomentum(args.interior_state, args.normal)
                  /\ w.sl = -w.sr
                  => result.flux.h = 0

\* a wet state moving across an axis-aligned wall, and the flux of momentum
\* it meets
NoMassThroughWallWitness ==
    /\ pc = "done" /\ boundary_conditions_[1].type = "Wall"
    /\ args.interior_state.h > params_.dry_tolerance
    /\ AxisAligned(args.normal)
    /\ Dot(Point(args.interior_state.hu, args.interior_state.hv), args.normal) # 0
    /\ result.flux.h = 0
    /\ result.flux # ZeroState
====
